---------------------------- MODULE Spec2Model ----------------------------
(***************************************************************************)
(* A model of the ctxtodo analyzer (internal/ctxtodo/ctxtodo.go): the pass *)
(* that finds context.TODO() calls and plumbs a context.Context to them.   *)
(*                                                                         *)
(* A program is a table of procedures (top-level function declarations)    *)
(* and a table of syntax nodes in source order.  One behaviour analyses    *)
(* one program: unit 1 (a dependency, when the program has one), then unit *)
(* 2, then every reported fix is applied and both units are analysed once  *)
(* more.  Inside a pass the recursion of propagateContextThrough and       *)
(* propagateContextForCall is run on an explicit stack, one call per step. *)
(***************************************************************************)
EXTENDS Naturals, Sequences, FiniteSets

(***************************************************************************)
(* Bounds of the model.                                                    *)
(***************************************************************************)
NumProcs == 2
MaxStmts == 2

Procs == 1..NumProcs

(***************************************************************************)
(* Callees that are not procedures of the program.                         *)
(***************************************************************************)
CalleeTODO    == NumProcs + 1   \* context.TODO
CalleeExt     == NumProcs + 2   \* a function of another package, no fact
CalleeFuncLit == NumProcs + 3   \* call.Fun is a function literal
NoCallee      == 0

(***************************************************************************)
(* Types, as far as the analyzer tells them apart.                         *)
(***************************************************************************)
isContextContext(typ) == typ = "Context"

typeHasContextMethod(typ) == typ = "Request"

Param(n, t) == [name |-> n, type |-> t]

(***************************************************************************)
(* The procedure declarations a program is drawn from.                     *)
(***************************************************************************)
ProcShapes ==
  { [name |-> "f",     params |-> << >>,                        test |-> FALSE],
    [name |-> "g",     params |-> << >>,                        test |-> FALSE],
    [name |-> "F",     params |-> << >>,                        test |-> FALSE],
    [name |-> "main",  params |-> << >>,                        test |-> FALSE],
    [name |-> "TestF", params |-> << >>,                        test |-> TRUE],
    [name |-> "h",     params |-> << Param("ctx", "Context") >>, test |-> FALSE],
    [name |-> "k",     params |-> << Param("ctx", "string") >>,  test |-> FALSE],
    [name |-> "l",     params |-> << Param("r", "Request") >>,   test |-> FALSE],
    [name |-> "m",     params |-> << Param("", "Request") >>,    test |-> FALSE] }

Layouts == { "one", "two", "twoCache" }

UnitOf(layout, p) == IF layout # "one" /\ p = 1 THEN 1 ELSE 2

PkgName(u) == IF u = 2 THEN "main" ELSE "producer"

\* one package declares a name once
DistinctNames(layout, shapes) ==
  \A p \in Procs : \A q \in Procs :
    p # q /\ UnitOf(layout, p) = UnitOf(layout, q) => shapes[p].name # shapes[q].name

Forms == { "todo", "assign", "call", "callTodo" }

Ctxs == { "plain", "litProv" }

\* the names of the model that start with an upper-case letter
ExportedNames == { "F", "TestF" }

\* A call names a procedure of the caller's own unit, or an exported
\* procedure (outside _test.go files) of the unit it depends on.
StmtShapesOf(layout, shapes, ctxs, forms) ==
  { s \in [fn : Procs, ctx : ctxs, form : forms, callee : Procs \cup {NoCallee}] :
      /\ (s.form \in {"call", "callTodo"}) <=> (s.callee # NoCallee)
      /\ s.callee # NoCallee =>
            \/ UnitOf(layout, s.callee) = UnitOf(layout, s.fn)
            \/ /\ UnitOf(layout, s.callee) < UnitOf(layout, s.fn)
               /\ shapes[s.callee].name \in ExportedNames
               /\ ~shapes[s.callee].test }

StmtShapes(layout, shapes) == StmtShapesOf(layout, shapes, Ctxs, Forms)

\* ctx := context.TODO() directly in the body of a procedure declares ctx
\* there: the body has no parameter and no other declaration of that name
DeclaresCtx(s) == s.form = "assign" /\ s.ctx = "plain"

\* the statements of a program, in source order
StmtLists(layout, shapes) ==
  { ss \in UNION { [1..k -> StmtShapes(layout, shapes)] : k \in 0..MaxStmts } :
      /\ \A i \in 1..Len(ss) : \A j \in 1..Len(ss) : i < j => ss[i].fn <= ss[j].fn
      /\ \A i \in 1..Len(ss) :
           DeclaresCtx(ss[i]) =>
             /\ \A k \in 1..Len(shapes[ss[i].fn].params) :
                  shapes[ss[i].fn].params[k].name # "ctx"
             /\ \A j \in 1..Len(ss) :
                  j # i /\ ss[j].fn = ss[i].fn => ~DeclaresCtx(ss[j]) }

(***************************************************************************)
(* Syntax nodes.  Every node is a record of the same fields; a node's      *)
(* index in the table is its place in source order, parents first.         *)
(***************************************************************************)
Node(k, par, fn, callee, lhs, params, vname, vtype) ==
  [kind |-> k, parent |-> par, fn |-> fn, callee |-> callee, lhs |-> lhs,
   params |-> params, vname |-> vname, vtype |-> vtype, args |-> << >>]

FuncDeclNode(p)      == Node("FuncDecl", 0, p, NoCallee, << >>, << >>, "", "")
FuncLitNode(par, ps) == Node("FuncLit", par, 0, NoCallee, << >>, ps, "", "")
CallNode(par, c)     == Node("Call", par, 0, c, << >>, << >>, "", "")
AssignNode(par, l)   == Node("Assign", par, 0, NoCallee, l, << >>, "", "Context")

VarNode(par, nm, t)  == Node("Var", par, 0, NoCallee, << >>, << >>, nm, t)
BlockNode(par)       == Node("Block", par, 0, NoCallee, << >>, << >>, "", "")

\* What a statement is wrapped in, outermost first: "lit" is a closure
\* called on the spot, "litProv" one with a parameter r *http.Request,
\* "block" the body of an if or for statement, and "var" the declaration
\* var r *http.Request in front of the statement.
Layers(ctx) ==
  CASE ctx = "plain"      -> << >>
    [] ctx = "litProv"    -> << "litProv" >>
    [] ctx = "lit"        -> << "lit" >>
    [] ctx = "litLit"     -> << "lit", "lit" >>
    [] ctx = "litProvLit" -> << "litProv", "lit" >>
    [] ctx = "block"      -> << "block" >>
    [] ctx = "varBefore"  -> << "var" >>
    [] ctx = "varAfter"   -> << >>
    [] ctx = "blockVar"   -> << "block", "var" >>
    [] ctx = "varBlock"   -> << "var", "block" >>
    [] ctx = "litVar"     -> << "lit", "var" >>
    [] ctx = "varLit"     -> << "var", "lit" >>

RECURSIVE WrapNodes(_, _, _, _)
\* the nodes of the layers, appended to a table of length base, and the
\* node the wrapped statement is a child of
WrapNodes(layers, par, base, acc) ==
  IF layers = << >> THEN [nodes |-> acc, par |-> par]
  ELSE LET at == base + Len(acc)
       IN CASE Head(layers) = "var" ->
                 WrapNodes(Tail(layers), par, base,
                           Append(acc, VarNode(par, "r", "Request")))
            [] Head(layers) = "block" ->
                 WrapNodes(Tail(layers), at + 1, base, Append(acc, BlockNode(par)))
            [] Head(layers) \in { "lit", "litProv" } ->
                 WrapNodes(Tail(layers), at + 2, base,
                           acc \o << CallNode(par, CalleeFuncLit),
                                     FuncLitNode(at + 1,
                                       IF Head(layers) = "litProv"
                                       THEN << Param("r", "Request") >>
                                       ELSE << >>) >>)

\* The nodes of one statement, appended to a table of length base, inside
\* the function declaration at index decl.
StmtNodes(s, decl, base) ==
  LET w    == WrapNodes(Layers(s.ctx), decl, base, << >>)
      wrap == w.nodes
      par  == w.par
      at   == base + Len(wrap)
      body == CASE s.form = "todo"     -> << CallNode(par, CalleeTODO) >>
                [] s.form = "assign"   -> << AssignNode(par, << "ctx" >>),
                                             CallNode(at + 1, CalleeTODO) >>
                [] s.form = "var"      -> << VarNode(par, "ctx", "Context"),
                                             CallNode(at + 1, CalleeTODO) >>
                [] s.form = "call"     -> << CallNode(par, s.callee) >>
                [] s.form = "callExt"  -> << CallNode(par, CalleeExt) >>
                [] s.form = "callTodo" -> << CallNode(par, s.callee),
                                             CallNode(at + 1, CalleeTODO) >>
      rest == IF s.ctx = "varAfter" THEN << VarNode(decl, "r", "Request") >> ELSE << >>
  IN wrap \o body \o rest

RECURSIVE BodyNodes(_, _, _, _, _)
BodyNodes(ss, i, p, decl, acc) ==
  IF i > Len(ss) THEN acc
  ELSE IF ss[i].fn # p THEN BodyNodes(ss, i + 1, p, decl, acc)
  ELSE BodyNodes(ss, i + 1, p, decl, acc \o StmtNodes(ss[i], decl, Len(acc)))

RECURSIVE FileNodes(_, _, _)
FileNodes(ss, p, acc) ==
  IF p > NumProcs THEN acc
  ELSE LET withDecl == Append(acc, FuncDeclNode(p))
       IN FileNodes(ss, p + 1, BodyNodes(ss, 1, p, Len(withDecl), withDecl))

MkProcs(layout, shapes) ==
  [p \in Procs |->
     [name |-> shapes[p].name, params |-> shapes[p].params,
      test |-> shapes[p].test, unit |-> UnitOf(layout, p), ctxDecl |-> ""]]

VARIABLES procs, nodes, imports, modcache, ModuleCache

astVars == << procs, nodes, imports, modcache, ModuleCache >>

\* the program with the given layout, procedures and statements
Program(layout, shapes, ss) ==
  /\ procs = MkProcs(layout, shapes)
  /\ nodes = FileNodes(ss, 1, << >>)
  /\ modcache = IF layout = "twoCache" THEN {1} ELSE {}
  /\ imports = { f \in [unit : 1..2, test : BOOLEAN] :
                   \E p \in Procs :
                     /\ UnitOf(layout, p) = f.unit /\ shapes[p].test = f.test
                     /\ \/ \E i \in 1..Len(shapes[p].params) :
                              shapes[p].params[i].type = "Context"
                        \/ \E i \in 1..Len(ss) :
                              ss[i].fn = p /\ ss[i].form # "call" }

\* the value of GOMODCACHE, the default of the -modcache flag
GoModCache == << "modcache" >>

InitProgram ==
  \E layout \in Layouts :
    \E shapes \in { sh \in [Procs -> ProcShapes] : DistinctNames(layout, sh) } :
      \E ss \in StmtLists(layout, shapes) :
        /\ Program(layout, shapes, ss)
        /\ ModuleCache = GoModCache

(***************************************************************************)
(* Source positions (token.Pos).  Node n starts at 10*n; the positions     *)
(* inside a node that edits refer to follow from its syntax.               *)
(***************************************************************************)
Pos(n) == 10 * n

Children(n) == { m \in 1..Len(nodes) : nodes[m].parent = n }

RECURSIVE IsUnder(_, _)
IsUnder(m, n) ==
  IF m = 0 THEN FALSE
  ELSE nodes[m].parent = n \/ IsUnder(nodes[m].parent, n)

LastUnder(n) ==
  LET under == { m \in 1..Len(nodes) : IsUnder(m, n) }
  IN IF under = {} THEN n ELSE CHOOSE m \in under : \A k \in under : k <= m

\* call.End(), which for a call is Rparen + 1
End(n) == 10 * LastUnder(n) + 6 + (LastUnder(n) - n)

\* callExpr.Lparen + 1: where the first argument starts
LparenPlus1(n) ==
  IF Children(n) = {} THEN Pos(n) + 5
  ELSE Pos(CHOOSE m \in Children(n) : \A k \in Children(n) : m <= k)

ParamsOpeningPlus1(n) == Pos(n) + 1

ParamPos(n, i) == Pos(n) + 1 + i

LbracePlus1(n) == Pos(n) + 5

(***************************************************************************)
(* Files: one file per unit, and one _test.go file per unit for the        *)
(* procedures declared in it.                                              *)
(***************************************************************************)
FileOf(p) == [unit |-> procs[p].unit, test |-> procs[p].test]

\* a file name, as its path components
Filename(f) ==
  << IF f.unit \in modcache THEN "modcache" ELSE "src", PkgName(f.unit),
     IF f.test THEN "x_test.go" ELSE "x.go" >>

\* strings.HasPrefix
HasPrefix(name, prefix) ==
  Len(prefix) <= Len(name) /\ SubSeq(name, 1, Len(prefix)) = prefix

ImportPos(f) == 2 * f.unit + (IF f.test THEN 1 ELSE 0)

RECURSIVE PathTo(_)
\* forStack: the traversal stack down to node n, outermost first
PathTo(n) == IF n = 0 THEN << >> ELSE Append(PathTo(nodes[n].parent), n)

DeclNode(p) == CHOOSE n \in 1..Len(nodes) : nodes[n].kind = "FuncDecl" /\ nodes[n].fn = p

\* astPath.decl: the procedure of the last function declaration on the
\* path, 0 when there is none
decl(path) ==
  LET ds == { i \in 1..Len(path) : nodes[path[i]].kind = "FuncDecl" }
  IN IF ds = {} THEN 0
     ELSE nodes[path[CHOOSE i \in ds : \A j \in ds : j <= i]].fn

FileOfNode(n) == FileOf(decl(PathTo(n)))

UnitOfNode(n) == procs[decl(PathTo(n))].unit

(***************************************************************************)
(* The lexical scope of a function: its named parameters and the variables *)
(* declared directly in its body.                                          *)
(***************************************************************************)
ScopeNodeKinds == { "FuncDecl", "FuncLit", "Block" }

RECURSIVE ScopeOwner(_)
ScopeOwner(m) ==
  LET par == nodes[m].parent
  IN IF par = 0 THEN 0
     ELSE IF nodes[par].kind \in ScopeNodeKinds THEN par ELSE ScopeOwner(par)

ParamsOf(n) ==
  IF nodes[n].kind = "FuncDecl" THEN procs[nodes[n].fn].params ELSE nodes[n].params

Obj(nm, t, pos) == [name |-> nm, type |-> t, pos |-> pos]

\* the position of the name in `var name ...`
IdentPos(m) == Pos(m) + 4

ScopeObjects(n) ==
  LET ps == ParamsOf(n)
  IN { Obj(ps[i].name, ps[i].type, ParamPos(n, i - 1)) :
         i \in { j \in 1..Len(ps) : ps[j].name # "" } }
     \cup { Obj(nodes[m].vname, nodes[m].vtype, IdentPos(m)) :
              m \in { k \in 1..Len(nodes) :
                        nodes[k].kind = "Var" /\ ScopeOwner(k) = n } }
     \cup UNION { { Obj(nodes[m].lhs[i], nodes[m].vtype, Pos(m)) :
                      i \in { j \in 1..Len(nodes[m].lhs) : nodes[m].lhs[j] # "_" } } :
                  m \in { k \in 1..Len(nodes) :
                            nodes[k].kind = "Assign" /\ ScopeOwner(k) = n } }
     \cup (IF nodes[n].kind = "FuncDecl" /\ procs[nodes[n].fn].ctxDecl # ""
           THEN { Obj("ctx", "Context", LbracePlus1(n)) } ELSE {})

\* scope.Names() is sorted: the names of the model in that order
SortedNames == << "ctx", "foo", "r" >>

NameRank(nm) == CHOOSE i \in 1..Len(SortedNames) : SortedNames[i] = nm

(***************************************************************************)
(* The context-source resolver.  A result is none, or a provider           *)
(* expression; reports holds the positions of the "Name this param"        *)
(* diagnostics the search reported on its way.                             *)
(***************************************************************************)
NoProvider == [ok |-> FALSE, expr |-> "", reports |-> << >>]

Provider(e, reps) == [ok |-> TRUE, expr |-> e, reports |-> reps]

IdxStr == << "0", "1", "2" >>

RECURSIVE ProviderAmongNamed(_, _, _, _)
\* a resolver that reports an unnamed parameter and goes on to the next
ProviderAmongNamed(ps, n, i, reps) ==
  IF i >= Len(ps) THEN [ok |-> FALSE, expr |-> "", reports |-> reps]
  ELSE LET param == ps[i + 1]
       IN IF param.name = ""
          THEN ProviderAmongNamed(ps, n, i + 1,
                 IF isContextContext(param.type) \/ typeHasContextMethod(param.type)
                 THEN Append(reps, ParamPos(n, i)) ELSE reps)
          ELSE IF isContextContext(param.type) THEN Provider(param.name, reps)
          ELSE IF typeHasContextMethod(param.type)
               THEN Provider(param.name \o ".Context()", reps)
          ELSE ProviderAmongNamed(ps, n, i + 1, reps)

RECURSIVE ProviderAmong(_, _, _, _)
\* the loop of hasContextProviderParam and of hasContextProviderField over
\* the parameters ps of node n, from index i (0-based as in the source)
ProviderAmong(ps, n, i, reps) ==
  IF i >= Len(ps) THEN [ok |-> FALSE, expr |-> "", reports |-> reps]
  ELSE LET param     == ps[i + 1]
           unnamed   == param.name = ""
           paramName == IF unnamed THEN "unnamedParam" \o IdxStr[i + 1] ELSE param.name
           reps2     == IF unnamed /\ (isContextContext(param.type)
                                        \/ typeHasContextMethod(param.type))
                        THEN Append(reps, ParamPos(n, i)) ELSE reps
       IN IF isContextContext(param.type) THEN Provider(paramName, reps2)
          ELSE IF typeHasContextMethod(param.type)
               THEN Provider(paramName \o ".Context()", reps2)
          ELSE ProviderAmong(ps, n, i + 1, reps2)

hasContextProviderParam(p) == ProviderAmong(procs[p].params, DeclNode(p), 0, << >>)

hasContextProviderField(n) == ProviderAmong(nodes[n].params, n, 0, << >>)

hasContextProviderInScope(n, at) ==
  LET cands == { o \in ScopeObjects(n) :
                   /\ ~(o.pos >= at)
                   /\ isContextContext(o.type) \/ typeHasContextMethod(o.type) }
  IN IF cands = {} THEN NoProvider
     ELSE LET o == CHOOSE c \in cands :
                     \A d \in cands :
                       \/ NameRank(c.name) < NameRank(d.name)
                       \/ NameRank(c.name) = NameRank(d.name) /\ c.pos <= d.pos
          IN IF isContextContext(o.type) THEN Provider(o.name, << >>)
             ELSE Provider(o.name \o ".Context()", << >>)

RECURSIVE InPath(_, _, _)
InPath(caller, at, reps) ==
  IF Len(caller) = 0 THEN [ok |-> FALSE, expr |-> "", reports |-> reps]
  ELSE LET last == caller[Len(caller)]
           prev == SubSeq(caller, 1, Len(caller) - 1)
           kind == nodes[last].kind
       IN IF kind = "Assign" THEN InPath(prev, Pos(last), reps)
          ELSE IF kind \in { "FuncDecl", "FuncLit" }
          THEN LET byParam == IF kind = "FuncDecl"
                              THEN hasContextProviderParam(nodes[last].fn)
                              ELSE hasContextProviderField(last)
                   inScope == hasContextProviderInScope(last, at)
               IN IF byParam.ok THEN Provider(byParam.expr, reps \o byParam.reports)
                  ELSE IF inScope.ok
                       THEN Provider(inScope.expr, reps \o byParam.reports)
                  ELSE InPath(prev, at, reps \o byParam.reports)
          ELSE InPath(prev, at, reps)

\* a resolver that finds nothing
hasContextProviderInPathNone(caller, at) == NoProvider

\* a resolver that looks at the top-level function declaration only
hasContextProviderInPathDecl(caller, at) ==
  IF caller = << >> THEN NoProvider ELSE InPath(<< caller[1] >>, at, << >>)

hasContextProviderInPath(caller, at) == InPath(caller, at, << >>)

(***************************************************************************)
(* The state of the analysis.                                              *)
(***************************************************************************)
VARIABLES
  round,            \* 1: the first analysis, 2: the analysis of the fixed program
  unit,             \* the unit whose pass is running
  pc,               \* "run", "diag", "walk", "done"
  facts,            \* procedures with an exported NeedsContext fact
  byObj,            \* runner.byObj
  callers,          \* runner.callers
  todos,            \* runner.todos
  transitives,      \* runner.transitives
  paramAdded,       \* runner.paramAdded
  contextImported,  \* runner.contextImported
  next,             \* index of the request or continuation edge handled next
  cur,              \* the localCall of the walk that is running
  seen,             \* the seen set of that walk
  stack,            \* the pending calls of that walk, innermost first
  edits,            \* the edits of that walk so far
  visits,           \* per procedure, the entries of that walk past the seen check
  reported,         \* the diagnostics that reached the driver, in order
  dropped           \* the diagnostics the report filter dropped, in order

\* The driver may run the passes of two units side by side: each pass has
\* a runner of its own, and the variables above are those of the pass that
\* is taking steps.
VARIABLES
  parked,           \* the runner of the pass that is not taking steps
  settled           \* the fact store a sequential run ended with

driverVars == << parked, settled >>

runVars == << byObj, callers, todos, transitives, paramAdded, contextImported >>

walkVars == << cur, seen, stack, edits, visits >>

vars == << procs, nodes, imports, modcache, ModuleCache, round, unit, pc, facts, byObj,
           callers, todos, transitives, paramAdded, contextImported, next, cur,
           seen, stack, edits, visits, reported, dropped, parked, settled >>

LocalCall(path, call, assign) == [path |-> path, call |-> call, assign |-> assign]

NoCall == LocalCall(<< >>, 0, 0)

(***************************************************************************)
(* buildCallGraph: one traversal of the unit's files in source order.  A   *)
(* visit function that returns false keeps the traversal out of the        *)
(* node's subtree.                                                         *)
(***************************************************************************)
isContextTODO(callee) == callee = CalleeTODO

isLocal(u, callee) == callee \in Procs /\ procs[callee].unit = u

\* a pass that reads no facts
ImportObjectFactNone(callee) == FALSE

ImportObjectFact(callee) == callee \in facts

\* a visit function that returns true where it should return false
PruneNothing(pruned, n) == pruned

\* "return false": the traversal stays out of the subtree of node n
Prune(pruned, n) == pruned \cup {n}

EmptyGraph ==
  [byObj |-> {}, callers |-> [p \in Procs |-> << >>], todos |-> << >>,
   transitives |-> << >>, pruned |-> {}]

walkFuncDecl(g, n) == [g EXCEPT !.byObj = @ \cup {nodes[n].fn}]

walkAssignStmt(g, n) ==
  LET rhs  == Children(n)
      call == CHOOSE m \in rhs : TRUE
  IN IF Len(nodes[n].lhs) # 1 \/ Cardinality(rhs) # 1 THEN g
     ELSE IF nodes[n].lhs[1] \notin { "ctx", "_" } THEN g
     ELSE IF nodes[call].kind # "Call" THEN g
     ELSE IF ~isContextTODO(nodes[call].callee) THEN g
     ELSE [g EXCEPT !.todos = Append(@, LocalCall(PathTo(n), call, n)),
                    !.pruned = Prune(@, n)]

walkCallExpr(g, u, n) ==
  LET called == nodes[n].callee
  IN IF called = CalleeFuncLit THEN g
     ELSE IF isContextTODO(called)
     THEN [g EXCEPT !.todos = Append(@, LocalCall(PathTo(n), n, 0)),
                    !.pruned = Prune(@, n)]
     ELSE LET g1 == IF isLocal(u, called)
                    THEN [g EXCEPT !.callers[called] =
                                      Append(@, LocalCall(PathTo(n), n, 0))]
                    ELSE g
          IN IF ImportObjectFact(called)
             THEN [g1 EXCEPT !.transitives = Append(@, LocalCall(PathTo(n), n, 0))]
             ELSE g1

RECURSIVE WalkFrom(_, _, _)
WalkFrom(g, u, n) ==
  IF n > Len(nodes) THEN g
  ELSE IF UnitOfNode(n) # u \/ \E m \in g.pruned : IsUnder(n, m)
  THEN WalkFrom(g, u, n + 1)
  ELSE WalkFrom(CASE nodes[n].kind = "FuncDecl" -> walkFuncDecl(g, n)
                  [] nodes[n].kind = "Assign"   -> walkAssignStmt(g, n)
                  [] nodes[n].kind = "Call"     -> walkCallExpr(g, u, n)
                  [] OTHER                      -> g,
                u, n + 1)

buildCallGraph(u) == WalkFrom(EmptyGraph, u, 1)

(***************************************************************************)
(* Edits (analysis.TextEdit) and diagnostics.                              *)
(***************************************************************************)
TextEdit(kind, target, pos, end, text) ==
  [kind |-> kind, target |-> target, pos |-> pos, end |-> end, text |-> text]

editToAddContextVarDecl(p, call) ==
  TextEdit("vardecl", p, LbracePlus1(DeclNode(p)), LbracePlus1(DeclNode(p)),
           "ctx := " \o call \o ";")

editToPrependCtxParam(p) ==
  TextEdit("param", p, ParamsOpeningPlus1(DeclNode(p)),
           ParamsOpeningPlus1(DeclNode(p)), "ctx context.Context, ")

editToPrependExpr(call, varname) ==
  TextEdit("prepend", call, LparenPlus1(call), LparenPlus1(call), varname \o ", ")

editToReplaceCall(call, expr) ==
  TextEdit("replace", call, Pos(call), End(call), expr)

editToRemoveAssign(assign, call) ==
  TextEdit("delete", assign, Pos(assign), End(call), "")

\* a file has a parenthesised import block when it imports net/http
HasImportBlock(f) ==
  \E n \in 1..Len(nodes) :
    /\ nodes[n].kind \in { "FuncDecl", "FuncLit" }
    /\ FileOfNode(n) = f
    /\ \E i \in 1..Len(ParamsOf(n)) : ParamsOf(n)[i].type = "Request"

FirstDecl(f) ==
  CHOOSE n \in 1..Len(nodes) :
    /\ nodes[n].kind = "FuncDecl" /\ FileOf(nodes[n].fn) = f
    /\ \A m \in 1..Len(nodes) :
         nodes[m].kind = "FuncDecl" /\ FileOf(nodes[m].fn) = f => n <= m

\* editToImportContext without its update of contextImported
editToImportContext(p) ==
  LET file == FileOf(p)
  IN IF file \in contextImported THEN << >>
     ELSE IF file \in imports THEN << >>
     ELSE IF HasImportBlock(file)
     THEN << TextEdit("import", file, ImportPos(file), ImportPos(file),
                      "\"context\";") >>
     ELSE << TextEdit("import", file, Pos(FirstDecl(file)), Pos(FirstDecl(file)),
                      "import \"context\";") >>

Diagnostic(pos, end, message, fixes) ==
  [pos |-> pos, end |-> end, message |-> message, edits |-> fixes,
   unit |-> unit, round |-> round]

\* pass.Reportf at the positions the resolver named
NamingDiagnostics(positions) ==
  [i \in 1..Len(positions) |->
     Diagnostic(positions[i], positions[i],
                "Name this param if you want plumber to use it", << >>)]

\* the file a position lies in
FileAt(pos) == FileOfNode(pos \div 10)

\* filterReports: whether the wrapped Report passes the diagnostic on
filterReports(diag) ==
  ~ \E i \in 1..Len(diag.edits) :
      \E pos \in { diag.edits[i].pos, diag.edits[i].end } :
        pos # 0 /\ HasPrefix(Filename(FileAt(diag.pos)), ModuleCache)

RECURSIVE Passed(_)
Passed(ds) ==
  IF ds = << >> THEN << >>
  ELSE (IF filterReports(Head(ds)) THEN << Head(ds) >> ELSE << >>) \o Passed(Tail(ds))

RECURSIVE Filtered(_)
Filtered(ds) ==
  IF ds = << >> THEN << >>
  ELSE (IF filterReports(Head(ds)) THEN << >> ELSE << Head(ds) >>) \o Filtered(Tail(ds))

\* pass.Report, for a list of diagnostics in order
Report(ds) ==
  /\ reported' = reported \o Passed(ds)
  /\ dropped' = dropped \o Filtered(ds)

(***************************************************************************)
(* run: a fresh runner for the unit, then buildScopeMap and buildCallGraph.*)
(***************************************************************************)
UnitProcs(u) == { p \in Procs : procs[p].unit = u }

FirstUnit == IF UnitProcs(1) # {} THEN 1 ELSE 2

NoVisits == [p \in Procs |-> 0]

\* the runner of the pass that is taking steps
Runner ==
  [unit |-> unit, pc |-> pc, byObj |-> byObj, callers |-> callers, todos |-> todos,
   transitives |-> transitives, paramAdded |-> paramAdded,
   contextImported |-> contextImported, next |-> next, cur |-> cur, seen |-> seen,
   stack |-> stack, edits |-> edits, visits |-> visits]

\* the runner of a pass over unit u that has not started
FreshRunner(u) ==
  [unit |-> u, pc |-> "run", byObj |-> {}, callers |-> [p \in Procs |-> << >>],
   todos |-> << >>, transitives |-> << >>, paramAdded |-> {}, contextImported |-> {},
   next |-> 1, cur |-> NoCall, seen |-> {}, stack |-> << >>, edits |-> << >>,
   visits |-> NoVisits]

\* one pass at a time: there is no second runner
NoRunner == [FreshRunner(0) EXCEPT !.pc = "none"]

run ==
  /\ pc = "run"
  /\ LET g == buildCallGraph(unit)
     IN /\ byObj' = g.byObj
        /\ callers' = g.callers
        /\ todos' = g.todos
        /\ transitives' = g.transitives
  /\ paramAdded' = {}
  /\ contextImported' = {}
  /\ next' = 1
  /\ pc' = "diag"
  /\ UNCHANGED << astVars, driverVars, round, unit, facts, walkVars, reported, dropped >>

(***************************************************************************)
(* The pending calls of a walk.                                            *)
(***************************************************************************)
Through(p) == [op |-> "through", decl |-> p, call |-> NoCall, edit |-> << >>]

ForCall(lc) == [op |-> "forcall", decl |-> 0, call |-> lc, edit |-> << >>]

Emit(e) == [op |-> "emit", decl |-> 0, call |-> NoCall, edit |-> << e >>]

(***************************************************************************)
(* rewriteTODO, up to its first call of propagateContextThrough.           *)
(***************************************************************************)
rewriteTODO ==
  /\ pc = "diag"
  /\ next <= Len(todos)
  /\ LET todo == todos[next]
         prov == hasContextProviderInPath(todo.path, Pos(todo.call))
     IN /\ cur' = todo
        /\ IF todo.assign # 0
           THEN /\ stack' = << Through(decl(todo.path)),
                               Emit(editToRemoveAssign(todo.assign, todo.call)) >>
                /\ edits' = << >>
                /\ Report(<< >>)
           ELSE IF prov.ok
           THEN /\ stack' = << >>
                /\ edits' = << editToReplaceCall(todo.call, prov.expr) >>
                /\ Report(NamingDiagnostics(prov.reports))
           ELSE /\ stack' = << Through(decl(todo.path)),
                               Emit(editToReplaceCall(todo.call, "ctx")) >>
                /\ edits' = << >>
                /\ Report(NamingDiagnostics(prov.reports))
  /\ seen' = {}
  /\ visits' = NoVisits
  /\ pc' = "walk"
  /\ UNCHANGED << astVars, driverVars, round, unit, facts, runVars, next >>

(***************************************************************************)
(* rewriteTransitives, up to its call of propagateContextForCall.          *)
(***************************************************************************)
rewriteTransitives ==
  /\ pc = "diag"
  /\ next > Len(todos)
  /\ next <= Len(todos) + Len(transitives)
  /\ cur' = transitives[next - Len(todos)]
  /\ stack' = << ForCall(transitives[next - Len(todos)]) >>
  /\ edits' = << >>
  /\ seen' = {}
  /\ visits' = NoVisits
  /\ pc' = "walk"
  /\ UNCHANGED << astVars, driverVars, round, unit, facts, runVars, next, reported, dropped >>

(***************************************************************************)
(* propagateContextThrough, one call of it.                                *)
(***************************************************************************)
\* a test of the name that takes every name for exported
ExportedAlways(p) == TRUE

\* types.Func.Exported
Exported(p) == procs[p].name \in ExportedNames

\* the model has no methods: every procedure is receiver-less
isMainOrInit(p) ==
  \/ PkgName(procs[p].unit) = "main" /\ procs[p].name = "main"
  \/ procs[p].name = "init"

\* the names of the model that match ^(Test|Benchmark|Fuzz)[A-Z]
TopLevelTestNames == { "TestF", "BenchmarkF", "FuzzF" }

\* a pattern that matches no name
isTopLevelTestFuncNoMatch(p) == FALSE

isTopLevelTestFunc(p) == procs[p].test /\ procs[p].name \in TopLevelTestNames

\* the first parameter named ctx, 0 when there is none
CtxParam(p) ==
  LET is == { i \in 1..Len(procs[p].params) : procs[p].params[i].name = "ctx" }
  IN IF is = {} THEN 0 ELSE CHOOSE i \in is : \A j \in is : i <= j

\* a walk without its seen set
SeenInWalkNever(p) == FALSE

SeenInWalk(p) == p \in seen

\* a pass without the paramAdded guard
ParamAlreadyAddedNever(p) == FALSE

\* a guard that is one flag for the whole pass instead of one per procedure
ParamAlreadyAddedAny(p) == paramAdded # {}

ParamAlreadyAdded(p) == p \in paramAdded

\* a loop over the callers that starts one too late
callersOfButFirst(p) == SubSeq(callers[p], 2, Len(callers[p]))

\* r.callers[...] as propagateContextThrough ranges over it
callersOf(p) == callers[p]

ForCalls(lcs) == [i \in 1..Len(lcs) |-> ForCall(lcs[i])]

Return(rest) ==
  /\ stack' = rest
  /\ UNCHANGED << edits, facts, contextImported >>
  /\ Report(<< >>)

propagateContextThrough ==
  /\ pc = "walk"
  /\ stack # << >>
  /\ Head(stack).op = "through"
  /\ LET p    == Head(stack).decl
         rest == Tail(stack)
         prov == hasContextProviderParam(p)
     IN IF p = 0
        THEN Return(rest) /\ UNCHANGED << seen, visits, paramAdded >>
        ELSE IF SeenInWalk(p)
        THEN Return(rest) /\ UNCHANGED << seen, visits, paramAdded >>
        ELSE /\ seen' = seen \cup {p}
             /\ visits' = [visits EXCEPT ![p] = @ + 1]
             /\ IF ParamAlreadyAdded(p)
                THEN Return(rest) /\ UNCHANGED paramAdded
                ELSE /\ paramAdded' = paramAdded \cup {p}
                     /\ IF CtxParam(p) # 0
                        THEN /\ stack' = rest
                             /\ UNCHANGED << edits, facts, contextImported >>
                             /\ IF ~isContextContext(procs[p].params[CtxParam(p)].type)
                                THEN Report(<< Diagnostic(Pos(DeclNode(p)),
                                                          End(DeclNode(p)),
                                                          "Non-context ctx parameter",
                                                          << >>) >>)
                                ELSE Report(<< >>)
                        ELSE IF isMainOrInit(p) \/ isTopLevelTestFunc(p)
                        THEN /\ stack' = rest
                             /\ edits' = Append(edits,
                                           editToAddContextVarDecl(p, "context.Background()"))
                                         \o editToImportContext(p)
                             /\ contextImported' = contextImported \cup {FileOf(p)}
                             /\ UNCHANGED facts
                             /\ Report(<< >>)
                        ELSE IF prov.ok
                        THEN /\ stack' = rest
                             /\ edits' = Append(edits,
                                           editToAddContextVarDecl(p, prov.expr))
                                         \o editToImportContext(p)
                             /\ contextImported' = contextImported \cup {FileOf(p)}
                             /\ UNCHANGED facts
                             /\ Report(NamingDiagnostics(prov.reports))
                        ELSE /\ facts' = IF Exported(p) THEN facts \cup {p} ELSE facts
                             /\ edits' = Append(edits, editToPrependCtxParam(p))
                                         \o editToImportContext(p)
                             /\ contextImported' = contextImported \cup {FileOf(p)}
                             /\ stack' = ForCalls(callersOf(p)) \o rest
                             /\ Report(NamingDiagnostics(prov.reports))
  /\ UNCHANGED << astVars, driverVars, round, unit, pc, byObj, callers, todos, transitives,
                  next, cur >>

(***************************************************************************)
(* propagateContextForCall, up to its call of propagateContextThrough.     *)
(***************************************************************************)
propagateContextForCall ==
  /\ pc = "walk"
  /\ stack # << >>
  /\ Head(stack).op = "forcall"
  /\ LET caller == Head(stack).call
         rest   == Tail(stack)
         prov   == hasContextProviderInPath(caller.path, Pos(caller.call))
     IN /\ IF prov.ok
           THEN /\ edits' = Append(edits, editToPrependExpr(caller.call, prov.expr))
                /\ stack' = rest
           ELSE /\ edits' = edits
                /\ stack' = << Through(decl(caller.path)),
                               Emit(editToPrependExpr(caller.call, "ctx")) >> \o rest
        /\ Report(NamingDiagnostics(prov.reports))
  /\ UNCHANGED << astVars, driverVars, round, unit, pc, facts, runVars, next, cur, seen, visits >>

\* the append of an edit after the call of propagateContextThrough returned
appendEdit ==
  /\ pc = "walk"
  /\ stack # << >>
  /\ Head(stack).op = "emit"
  /\ edits' = edits \o Head(stack).edit
  /\ stack' = Tail(stack)
  /\ UNCHANGED << astVars, driverVars, round, unit, pc, facts, runVars, next, cur, seen, visits,
                  reported, dropped >>

\* the r.Report that ends rewriteTODO and rewriteTransitives
reportFix ==
  /\ pc = "walk"
  /\ stack = << >>
  /\ Report(<< Diagnostic(Pos(cur.call), End(cur.call),
                          IF next <= Len(todos) THEN "Plumb context"
                          ELSE "Continue plumbing context",
                          edits) >>)
  /\ next' = next + 1
  /\ pc' = "diag"
  /\ UNCHANGED << astVars, driverVars, round, unit, facts, runVars, walkVars >>

\* buildDiagnostics is through its two loops and run returns; the driver
\* goes on to the dependent unit
runReturns ==
  /\ pc = "diag"
  /\ next > Len(todos) + Len(transitives)
  /\ IF unit = 1 THEN unit' = 2 /\ pc' = "run"
     ELSE unit' = unit /\ pc' = "done"
  /\ UNCHANGED << astVars, driverVars, round, facts, runVars, next, walkVars, reported, dropped >>

(***************************************************************************)
(* The driver applies the suggested fixes of the reported diagnostics and  *)
(* analyses the result once more, with a fresh fact store.                 *)
(***************************************************************************)
RECURSIVE AllEdits(_)
AllEdits(ds) == IF ds = << >> THEN << >> ELSE Head(ds).edits \o AllEdits(Tail(ds))

ApplyEdit(ast, e) ==
  CASE e.kind = "param" ->
         [ast EXCEPT !.procs[e.target].params = << Param("ctx", "Context") >> \o @]
    [] e.kind = "vardecl" ->
         [ast EXCEPT !.procs[e.target].ctxDecl = e.text]
    [] e.kind = "import" ->
         [ast EXCEPT !.imports = @ \cup {e.target}]
    [] e.kind = "prepend" ->
         [ast EXCEPT !.nodes[e.target].args = << e.text >> \o @]
    [] e.kind = "replace" ->
         [ast EXCEPT !.nodes[e.target].kind = "Expr",
                     !.nodes[e.target].callee = NoCallee,
                     !.nodes[e.target].vname = e.text]
    [] e.kind = "delete" ->
         [ast EXCEPT !.nodes =
            [n \in 1..Len(nodes) |->
               IF n = e.target \/ IsUnder(n, e.target)
               THEN [@[n] EXCEPT !.kind = "Gone", !.callee = NoCallee, !.lhs = << >>]
               ELSE @[n]]]

RECURSIVE ApplyAll(_, _)
ApplyAll(ast, es) ==
  IF es = << >> THEN ast ELSE ApplyAll(ApplyEdit(ast, Head(es)), Tail(es))

applyFixes ==
  /\ pc = "done"
  /\ round = 1
  /\ LET ast == ApplyAll([procs |-> procs, nodes |-> nodes, imports |-> imports],
                         AllEdits(reported))
     IN /\ procs' = ast.procs
        /\ nodes' = ast.nodes
        /\ imports' = ast.imports
  /\ round' = 2
  /\ unit' = FirstUnit
  /\ pc' = "run"
  /\ facts' = {}
  /\ UNCHANGED << modcache, ModuleCache, driverVars, runVars, next, walkVars, reported,
                  dropped >>

\* the state of the driver and of the runner before the first pass
InitPass ==
  /\ round = 1
  /\ unit = FirstUnit
  /\ pc = "run"
  /\ byObj = {}
  /\ callers = [p \in Procs |-> << >>]
  /\ todos = << >>
  /\ transitives = << >>
  /\ paramAdded = {}
  /\ contextImported = {}
  /\ next = 1
  /\ cur = NoCall
  /\ seen = {}
  /\ stack = << >>
  /\ edits = << >>
  /\ visits = NoVisits
  /\ reported = << >>
  /\ dropped = << >>
  /\ parked = NoRunner
  /\ settled = {}

\* the first pass of a run whose units import nothing that has a fact
InitRunner == InitPass /\ facts = {}

Init == InitProgram /\ InitRunner

Next ==
  \/ run
  \/ rewriteTODO
  \/ rewriteTransitives
  \/ propagateContextThrough
  \/ propagateContextForCall
  \/ appendEdit
  \/ reportFix
  \/ runReturns
  \/ applyFixes

Spec == Init /\ [][Next]_vars

\* the scheduling of the driver: a pass that can take a step takes it
FairSpec == Spec /\ WF_vars(Next)

(***************************************************************************)
(* What the claims speak of, stated on the program and on the diagnostics  *)
(* and not through the analyzer's own decisions.                           *)
(***************************************************************************)
\* the diagnostics of the pass over unit u in round r, reported or dropped
PassDiags(r, u) ==
  SelectSeq(reported \o dropped, LAMBDA d : d.round = r /\ d.unit = u)

\* every edit that pass has emitted so far
EmittedEdits(r, u) ==
  AllEdits(PassDiags(r, u))
    \o (IF pc = "walk" /\ round = r /\ unit = u THEN edits ELSE << >>)

EditsOf(es, kind, target) ==
  { i \in 1..Len(es) : es[i].kind = kind /\ es[i].target = target }

Count(es, kind, target) == Cardinality(EditsOf(es, kind, target))

\* the pass over the current unit has handled every request and edge
PassOver == pc = "diag" /\ next > Len(todos) + Len(transitives)

\* a walk is through and its diagnostic is about to be reported
WalkOver == pc = "walk" /\ stack = << >>

EntryPoint(p) ==
  \/ procs[p].name = "main" /\ PkgName(procs[p].unit) = "main"
  \/ procs[p].name = "init"
  \/ procs[p].test /\ procs[p].name \in { "TestF", "BenchmarkF", "FuzzF" }

Qualifies(typ) == typ \in { "Context", "Request" }

ExprOf(name, typ) == IF typ = "Context" THEN name ELSE name \o ".Context()"

FuncAncestors(n) ==
  { a \in 1..Len(nodes) : IsUnder(n, a) /\ nodes[a].kind \in { "FuncDecl", "FuncLit" } }

\* where the declarations visible from node n in function a end: at n, or
\* at the start of the outermost assignment of a that n is part of
CutoffFor(n, a) ==
  LET as == { m \in 1..Len(nodes) :
                nodes[m].kind = "Assign" /\ IsUnder(n, m) /\ IsUnder(m, a) }
  IN IF as = {} THEN Pos(n) ELSE Pos(CHOOSE m \in as : \A k \in as : m <= k)

\* the expressions of the named providers visible at node n
NamedProvidersAt(n) ==
  UNION { { ExprOf(o.name, o.type) :
              o \in { x \in ScopeObjects(a) :
                        Qualifies(x.type) /\ x.pos < CutoffFor(n, a) } } :
          a \in FuncAncestors(n) }

\* the synthetic expressions of the unnamed parameters of qualifying type
UnnamedProvidersAt(n) ==
  UNION { { ExprOf("unnamedParam" \o IdxStr[i], ParamsOf(a)[i].type) :
              i \in { j \in 1..Len(ParamsOf(a)) :
                        ParamsOf(a)[j].name = "" /\ Qualifies(ParamsOf(a)[j].type) } } :
          a \in FuncAncestors(n) }

AnyProvidersAt(n) == NamedProvidersAt(n) \cup UnnamedProvidersAt(n)

QualifyingParam(p) ==
  \E i \in 1..Len(procs[p].params) : Qualifies(procs[p].params[i].type)

HasParamNamedCtx(p) ==
  \E i \in 1..Len(procs[p].params) : procs[p].params[i].name = "ctx"

\* the recorded call site lc got exactly one new leading argument: a
\* provider expression visible there, or ctx once its procedure was handled
OneLeadingArgument(es, lc) ==
  /\ Count(es, "prepend", lc.call) = 1
  /\ \A i \in EditsOf(es, "prepend", lc.call) :
       IF AnyProvidersAt(lc.call) # {}
       THEN es[i].text \in { e \o ", " : e \in AnyProvidersAt(lc.call) }
       ELSE es[i].text = "ctx, " /\ decl(lc.path) \in paramAdded

InjectedWithCallers(es, p) ==
  /\ Count(es, "param", p) = 1
  /\ \A j \in 1..Len(callers[p]) : OneLeadingArgument(es, callers[p][j])

RootDeclared(es, p) ==
  /\ Count(es, "vardecl", p) = 1
  /\ \A i \in EditsOf(es, "vardecl", p) :
       /\ es[i].text = "ctx := context.Background();"
       /\ es[i].pos = LbracePlus1(DeclNode(p))

\* the call sites of the unit that had to be given an argument
NeedingCalls(es) ==
  { n \in 1..Len(nodes) :
      /\ nodes[n].kind = "Call" /\ UnitOfNode(n) = unit
      /\ nodes[n].callee \in Procs
      /\ \/ Count(es, "param", nodes[n].callee) > 0
         \/ \E j \in 1..Len(transitives) : transitives[j].call = n }

SyntheticTexts ==
  UNION { { e, e \o ", ", "ctx := " \o e \o ";" } :
          e \in UNION { { "unnamedParam" \o IdxStr[i],
                          "unnamedParam" \o IdxStr[i] \o ".Context()" } :
                        i \in 1..Len(IdxStr) } }

\* the diagnostic that asks for a name for some parameter of procedure p
NamingReported(p) ==
  \E k \in 1..Len(reported \o dropped) :
    LET d == (reported \o dropped)[k]
    IN /\ d.round = round /\ d.unit = unit
       /\ d.message = "Name this param if you want plumber to use it"
       /\ \E i \in 0..(Len(procs[p].params) - 1) : d.pos = ParamPos(DeclNode(p), i)

\* the procedure an edit is made in
ProcOfEdit(e) ==
  IF e.kind \in { "vardecl", "param" } THEN e.target
  ELSE IF e.kind = "import" THEN 0
  ELSE decl(PathTo(e.target))

\* the only providers in sight of node n are unnamed parameters
OnlyUnnamedAt(n) == UnnamedProvidersAt(n) # {} /\ NamedProvidersAt(n) = {}

ReachAugmented ==
  /\ pc = "walk" /\ stack # << >>
  /\ Head(stack).op = "through"
  /\ Head(stack).decl \in paramAdded

(***************************************************************************)
(* C5: within one pass a procedure is augmented at most once, with one     *)
(* injected parameter or one root declaration, and a walk that reaches a   *)
(* procedure the pass has already augmented adds no edit, reports nothing  *)
(* and exports no fact at that step.                                       *)
(***************************************************************************)
C5_AugmentedOnce ==
  /\ [](\A r \in 1..2 : \A u \in 1..2 : \A p \in Procs :
          Count(EmittedEdits(r, u), "param", p)
            + Count(EmittedEdits(r, u), "vardecl", p) <= 1)
  /\ [][ReachAugmented =>
          /\ edits' = edits /\ reported' = reported /\ dropped' = dropped
          /\ facts' = facts /\ paramAdded' = paramAdded
          /\ stack' = Tail(stack)]_vars

\* a later walk of the same pass reaches a procedure augmented by an
\* earlier walk
C5_Witness ==
  /\ ReachAugmented
  /\ Head(stack).decl \notin seen
  /\ Count(AllEdits(PassDiags(round, unit)), "param", Head(stack).decl)
       + Count(AllEdits(PassDiags(round, unit)), "vardecl", Head(stack).decl) = 1

\* the file an edit is made in
FileOfEdit(e) ==
  IF e.kind = "import" THEN e.target
  ELSE IF e.kind \in { "vardecl", "param" } THEN FileOf(e.target)
  ELSE FileOfNode(e.target)

\* two edits of one file that touch a common position: two ranges that
\* intersect, or an insertion strictly inside a replaced or deleted range
Overlapping(a, b) ==
  /\ FileOfEdit(a) = FileOfEdit(b)
  /\ a.pos < b.end /\ b.pos < a.end

SameTarget(a, b) == a.kind = b.kind /\ a.target = b.target

NonOverlapping(es) ==
  \A i \in 1..Len(es) : \A j \in 1..Len(es) :
    i < j => ~Overlapping(es[i], es[j]) /\ ~SameTarget(es[i], es[j])

(***************************************************************************)
(* C8: the edits of all the diagnostics of one pass over a unit are        *)
(* pairwise non-overlapping in each file, and no edit is emitted twice for *)
(* the same target.                                                        *)
(***************************************************************************)
C8_NonOverlappingEdits ==
  \A r \in 1..2 : \A u \in 1..2 : NonOverlapping(EmittedEdits(r, u))

\* a pass that has emitted, in one file, a removed binding, a substituted
\* request with an argument prepended right before it, and a parameter
C8_Witness ==
  /\ PassOver
  /\ LET es == EmittedEdits(round, unit)
     IN /\ \E i \in 1..Len(es) : es[i].kind = "delete"
        /\ \E i \in 1..Len(es) : es[i].kind = "param"
        /\ \E i \in 1..Len(es) : \E j \in 1..Len(es) :
             /\ es[i].kind = "replace" /\ es[j].kind = "prepend"
             /\ es[j].pos = es[i].pos
             /\ FileOfEdit(es[i]) = FileOfEdit(es[j])

\* procedure p declares a parameter named ctx that is not a context
WrongCtx(p) ==
  \E i \in 1..Len(procs[p].params) :
    procs[p].params[i].name = "ctx" /\ procs[p].params[i].type # "Context"

\* the requests of the unit that lie in p with no provider in sight
BareRequestsIn(p) ==
  { i \in 1..Len(todos) :
      decl(todos[i].path) = p /\ AnyProvidersAt(todos[i].call) = {} }

AmbiguityReported(p) ==
  \E k \in 1..Len(reported \o dropped) :
    LET d == (reported \o dropped)[k]
    IN /\ d.round = round /\ d.unit = unit
       /\ d.message = "Non-context ctx parameter"
       /\ d.pos = Pos(DeclNode(p))

\* no parameter for p and no fact about it
NotAugmented(p) ==
  /\ Count(EmittedEdits(round, unit), "param", p) = 0
  /\ p \notin facts

\* no request or call site inside p was rewritten to reference ctx
NoCtxRewriteIn(p) ==
  \A i \in 1..Len(EmittedEdits(round, unit)) :
    LET e == EmittedEdits(round, unit)[i]
    IN e.kind \in { "replace", "prepend" } /\ decl(PathTo(e.target)) = p
         => e.text \notin { "ctx", "ctx, " }

(***************************************************************************)
(* C9: when a procedure with a request and no provider declares a          *)
(* parameter named ctx that is not of the context type, the pass reports   *)
(* "Non-context ctx parameter", injects no parameter, exports no fact, and *)
(* rewrites no request or call site inside the procedure to ctx.           *)
(***************************************************************************)
C9_Original ==
  PassOver =>
    \A p \in UnitProcs(unit) :
      WrongCtx(p) /\ BareRequestsIn(p) # {}
        => AmbiguityReported(p) /\ NotAugmented(p) /\ NoCtxRewriteIn(p)

\* the calls of the unit under analysis to an exported procedure of the
\* unit analyzed before it that got a parameter there
ContinuationCalls ==
  { n \in 1..Len(nodes) :
      /\ nodes[n].kind = "Call" /\ UnitOfNode(n) = unit
      /\ nodes[n].callee \in Procs
      /\ procs[nodes[n].callee].unit # unit
      /\ Count(EmittedEdits(round, procs[nodes[n].callee].unit), "param",
               nodes[n].callee) = 1 }

\* the continuation diagnostics at call n
ContinuationsAt(n) ==
  { k \in 1..Len(reported) :
      /\ reported[k].round = round /\ reported[k].unit = unit
      /\ reported[k].pos = Pos(n)
      /\ reported[k].message = "Continue plumbing context" }

C7_Original ==
  \A k \in 1..Len(reported) : reported[k].round # 2

\* what a pending call of the walk can still cost: a call of
\* propagateContextForCall is one step and leaves at most two pending calls
Weight(t) == IF t.op = "forcall" THEN 3 ELSE 1

RECURSIVE StackWeight(_)
StackWeight(st) == IF st = << >> THEN 0 ELSE Weight(Head(st)) + StackWeight(Tail(st))

\* the calls of propagateContextForCall the procedures p..NumProcs can
\* still start: those of the callers of the procedures not yet augmented
RECURSIVE PendingCallers(_)
PendingCallers(p) ==
  IF p > NumProcs THEN 0
  ELSE (IF p \in paramAdded THEN 0 ELSE 3 * Len(callers[p])) + PendingCallers(p + 1)

WalkMeasure == StackWeight(stack) + PendingCallers(1)

\* more than any walk measures, and more than any pass measures
WalkBound == 3 * Len(nodes) + 5

PassBound == (Len(nodes) + 2) * WalkBound

\* the walks buildDiagnostics has not finished
WalksLeft == (Len(todos) + Len(transitives) + 1) - next

PassMeasure ==
  CASE pc = "run"  -> PassBound - 1
    [] pc = "diag" -> WalksLeft * WalkBound
    [] pc = "walk" -> (WalksLeft - 1) * WalkBound + 1 + WalkMeasure
    [] pc = "done" -> 0

\* the passes the driver has behind it: two units in each of two rounds
Stage == (round - 1) * 3 + (IF pc = "done" THEN 3 ELSE unit)

Measure == (6 - Stage) * PassBound + PassMeasure

Finished == pc = "done" /\ round = 2

\* the guard of one of the steps of the analysis holds
CanStep ==
  \/ pc = "run"
  \/ pc = "diag" /\ next <= Len(todos) + Len(transitives) + 1
  \/ pc = "walk" /\ stack = << >>
  \/ pc = "walk" /\ stack # << >> /\ Head(stack).op \in { "through", "forcall", "emit" }
  \/ pc = "done" /\ round = 1

(***************************************************************************)
(* C6: the pass terminates on every call graph, cycles and self-recursion  *)
(* included: a top-level walk visits each procedure at most once, every    *)
(* step of the analysis lowers a natural-number measure, and the analysis  *)
(* can take a step as long as it has not returned.                         *)
(***************************************************************************)
C6_Terminates ==
  /\ [](\A p \in Procs : visits[p] <= 1)
  /\ [](Finished \/ CanStep)
  /\ [][Measure' < Measure]_vars

\* a walk comes back to a procedure it has visited: a cycle of the call
\* graph
C6_Witness ==
  /\ pc = "walk" /\ stack # << >>
  /\ Head(stack).op = "through"
  /\ Head(stack).decl \in seen
  /\ visits[Head(stack).decl] = 1

\* the name of procedure p starts with an upper-case letter
ExportedName(p) == procs[p].name \in ExportedNames

\* the parameter edits for procedure p among the edits of the pass over its
\* unit in the current round
ParamEdits(p) == Count(EmittedEdits(round, procs[p].unit), "param", p)

(***************************************************************************)
(* C11: a NeedsContext fact is there for a procedure exactly when the      *)
(* procedure is exported and got an injected parameter; a procedure with a *)
(* ctx parameter, a provider parameter or an entry point, and an           *)
(* unexported procedure, has no fact; a fact is written in the step that   *)
(* injects the parameter, so once per pass, and no step of a run takes a   *)
(* fact away.                                                              *)
(***************************************************************************)
C11_FactIffExportedAndInjected ==
  /\ [](\A p \in Procs :
          /\ p \in facts <=> ExportedName(p) /\ ParamEdits(p) = 1
          /\ p \in facts =>
               /\ ~EntryPoint(p) /\ ~HasParamNamedCtx(p) /\ ~QualifyingParam(p)
               /\ Count(EmittedEdits(round, procs[p].unit), "vardecl", p) = 0)
  /\ [][/\ round' = round => facts \subseteq facts'
        /\ \A p \in facts' \ facts :
             Count(edits', "param", p) = Count(edits, "param", p) + 1]_vars

\* a pass that gave a parameter to an exported procedure, which has a
\* fact, and to an unexported one, which has none
C11_Witness ==
  /\ PassOver
  /\ \E p \in UnitProcs(unit) : p \in facts /\ ParamEdits(p) = 1
  /\ \E q \in UnitProcs(unit) : q \notin facts /\ ParamEdits(q) = 1

(***************************************************************************)
(* C12: whenever a procedure has a fact and no walk is under way, a        *)
(* diagnostic that was reported in the current run has the edit that       *)
(* injects the parameter into that procedure.                              *)
(***************************************************************************)
C12_Original ==
  pc # "walk" =>
    \A p \in facts :
      \E k \in 1..Len(reported) :
        reported[k].round = round /\ Count(reported[k].edits, "param", p) = 1

\* the context requests of the unit under analysis: its calls of
\* context.TODO
Requests ==
  { n \in 1..Len(nodes) :
      nodes[n].kind = "Call" /\ nodes[n].callee = CalleeTODO /\ UnitOfNode(n) = unit }

\* the assignment a request is the right-hand side of, 0 when it is a bare
\* call
AssignOf(n) ==
  IF nodes[n].parent # 0 /\ nodes[nodes[n].parent].kind = "Assign"
  THEN nodes[n].parent ELSE 0

\* the edits that rewrite request n: its substitution, or the removal of
\* its binding
Rewrites(es, n) ==
  { i \in 1..Len(es) :
      \/ es[i].kind = "replace" /\ es[i].target = n
      \/ es[i].kind = "delete" /\ es[i].target = AssignOf(n) }

(***************************************************************************)
(* C14: every context request of the unit is recorded exactly once by the  *)
(* traversal, the assignment form and a request in a call argument         *)
(* included, and at the end of the pass it has exactly one "Plumb context" *)
(* diagnostic and exactly one edit that rewrites it.                       *)
(***************************************************************************)
C14_OneDiagnosticPerRequest ==
  /\ pc # "run" =>
       \A n \in Requests : Cardinality({ i \in 1..Len(todos) : todos[i].call = n }) = 1
  /\ PassOver =>
       \A n \in Requests :
         /\ Cardinality({ k \in 1..Len(PassDiags(round, unit)) :
                            /\ PassDiags(round, unit)[k].message = "Plumb context"
                            /\ PassDiags(round, unit)[k].pos = Pos(n) }) = 1
         /\ Cardinality(Rewrites(EmittedEdits(round, unit), n)) = 1

\* a pass over a unit with a request of the assignment form and a request
\* that is the argument of a call
C14_Witness ==
  /\ PassOver
  /\ \E n \in Requests : AssignOf(n) # 0
  /\ \E n \in Requests :
       nodes[n].parent # 0 /\ nodes[nodes[n].parent].kind = "Call"
         /\ nodes[nodes[n].parent].callee \in Procs

\* procedure p has a parameter ctx of the context type
HasContextCtxParam(p) ==
  \E i \in 1..Len(procs[p].params) :
    procs[p].params[i].name = "ctx" /\ procs[p].params[i].type = "Context"

\* in how many ways the pass leaves the name ctx bound in procedure p
CtxSources(es, p) ==
  (IF HasContextCtxParam(p) THEN 1 ELSE 0)
    + Count(es, "vardecl", p) + Count(es, "param", p)

\* the requests of the assignment form that the pass has recorded
AssignRequests == { i \in 1..Len(todos) : todos[i].assign # 0 }

BindingRemoved(es, todo) ==
  /\ Count(es, "delete", todo.assign) = 1
  /\ Count(es, "replace", todo.call) = 0

(***************************************************************************)
(* C19: for a request of the form ctx := context.TODO() the fix deletes    *)
(* the binding and never substitutes the request, and after the pass the   *)
(* enclosing procedure has ctx from exactly one of: a ctx parameter of the *)
(* context type it had, an alias of a provider parameter, a root           *)
(* declaration, an injected parameter.                                     *)
(***************************************************************************)
C19_Original ==
  PassOver =>
    \A i \in AssignRequests :
      /\ BindingRemoved(EmittedEdits(round, unit), todos[i])
      /\ CtxSources(EmittedEdits(round, unit), decl(todos[i].path)) = 1

\* the edits of the reported diagnostics of the pass under way
ReportedEdits ==
  AllEdits(SelectSeq(reported, LAMBDA d : d.round = round /\ d.unit = unit))

\* the name ctx is bound to a context in procedure p once the edits es are
\* applied: by a source the pass provides or by a root declaration p had
CtxBound(es, p) == CtxSources(es, p) >= 1 \/ procs[p].ctxDecl # ""

(***************************************************************************)
(* C20: whenever a reported edit of the pass inserts the name ctx at a     *)
(* request or as a call argument inside procedure X, X has a ctx parameter *)
(* of the context type or the pass reports a parameter or a ctx            *)
(* declaration for X as well.                                              *)
(***************************************************************************)
C20_Original ==
  PassOver =>
    \A i \in 1..Len(ReportedEdits) :
      LET e == ReportedEdits[i]
      IN e.kind \in { "replace", "prepend" } /\ e.text \in { "ctx", "ctx, " }
           => CtxBound(ReportedEdits, decl(PathTo(e.target)))

(***************************************************************************)
(* The report filter under every value of the -modcache flag.  The flag is *)
(* a plain string prefix: it may name the module cache, a source           *)
(* directory, or a single file of a package.                               *)
(***************************************************************************)
FilterShapes == { s \in ProcShapes : s.params = << >> }

FilterLayouts == { "one", "two" }

FlagValues ==
  { GoModCache, << "src" >> }
    \cup { << "src", PkgName(u) >> : u \in 1..2 }
    \cup { << "src", PkgName(u), b >> : u \in 1..2, b \in { "x.go", "x_test.go" } }

InitFilter ==
  /\ \E layout \in FilterLayouts :
       \E shapes \in { sh \in [Procs -> FilterShapes] : DistinctNames(layout, sh) } :
         \E ss \in StmtLists(layout, shapes) :
           Program(layout, shapes, ss)
  /\ ModuleCache \in FlagValues
  /\ InitRunner

FilterSpec == InitFilter /\ [][Next]_vars

\* an edit of diagnostic d touches a file under the prefix
TouchesCache(d) ==
  \E i \in 1..Len(d.edits) : HasPrefix(Filename(FileOfEdit(d.edits[i])), ModuleCache)

(***************************************************************************)
(* C13: the report filter drops every diagnostic one of whose edits        *)
(* touches a file under the module-cache prefix and reports every          *)
(* diagnostic none of whose edits touches such a file, wherever the        *)
(* diagnostic itself is positioned.                                        *)
(***************************************************************************)
C13_Original ==
  /\ \A k \in 1..Len(reported) : ~TouchesCache(reported[k])
  /\ \A k \in 1..Len(dropped) : TouchesCache(dropped[k])

(***************************************************************************)
(* Programs with closures, nested blocks and local variables: one          *)
(* statement in any of the wrappings of Layers, the others bare.           *)
(***************************************************************************)
ScopeShapes == { s \in ProcShapes : s.name \in { "f", "F", "main" } }

ScopeLayouts == { "one", "two" }

ScopeCtxs ==
  { "plain", "litProv", "lit", "litLit", "litProvLit", "block", "varBefore",
    "varAfter", "blockVar", "varBlock", "litVar", "varLit" }

ScopeForms == Forms \cup { "var" }

\* the names a statement declares directly in the body of its procedure
TopDecls(s) ==
  (IF s.ctx \in { "varBefore", "varAfter", "varBlock", "varLit" } THEN { "r" } ELSE {})
    \cup (IF s.form \in { "assign", "var" } /\ s.ctx \in { "plain", "varBefore", "varAfter" }
          THEN { "ctx" } ELSE {})

ScopeStmtLists(layout, shapes) ==
  { ss \in UNION { [1..k -> StmtShapesOf(layout, shapes, ScopeCtxs, ScopeForms)] :
                     k \in 1..MaxStmts } :
      /\ \A i \in 1..Len(ss) : \A j \in 1..Len(ss) : i < j => ss[i].fn <= ss[j].fn
      /\ \A i \in 1..Len(ss) : \A j \in 1..Len(ss) :
           i # j => /\ ss[i].ctx = "plain" \/ ss[j].ctx = "plain"
                    /\ ss[i].form # "var" \/ ss[j].form # "var"
                    /\ ss[i].fn = ss[j].fn => TopDecls(ss[i]) \cap TopDecls(ss[j]) = {} }

InitScope ==
  /\ \E layout \in ScopeLayouts :
       \E shapes \in { sh \in [Procs -> ScopeShapes] : DistinctNames(layout, sh) } :
         \E ss \in ScopeStmtLists(layout, shapes) :
           Program(layout, shapes, ss)
  /\ ModuleCache = GoModCache
  /\ InitRunner

ScopeSpec == InitScope /\ [][Next]_vars

\* the closures around node n
ClosuresAround(n) == { a \in FuncAncestors(n) : nodes[a].kind = "FuncLit" }

\* the expressions of the named qualifying parameters of those closures
ClosureParamExprs(n) ==
  UNION { { ExprOf(nodes[a].params[i].name, nodes[a].params[i].type) :
              i \in { j \in 1..Len(nodes[a].params) :
                        /\ nodes[a].params[j].name # ""
                        /\ Qualifies(nodes[a].params[j].type) } } :
          a \in ClosuresAround(n) }

\* the walk under way handles a request (and not a continuation call)
OfRequest == next <= Len(todos)

\* the site of the walk under way got one of the expressions exprs: as the
\* replacement of the request, or as the new leading argument of the call
UsedAt(es, lc, exprs) ==
  IF OfRequest
  THEN /\ Count(es, "replace", lc.call) = 1
       /\ \A i \in EditsOf(es, "replace", lc.call) : es[i].text \in exprs
  ELSE /\ Count(es, "prepend", lc.call) = 1
       /\ \A i \in EditsOf(es, "prepend", lc.call) :
            es[i].text \in { e \o ", " : e \in exprs }

NoInjection(es) == \A i \in 1..Len(es) : es[i].kind \notin { "param", "vardecl" }

\* the positions of the signature of closure n
SignatureOf(n) == (Pos(n) + 1)..(Pos(n) + 4)

\* every injection and every declaration is made in a top-level function
\* declaration, and no edit touches the signature of a closure
OnlyTopLevel(es) ==
  \A i \in 1..Len(es) :
    /\ es[i].kind = "param" =>
         es[i].target \in Procs /\ es[i].pos = ParamsOpeningPlus1(DeclNode(es[i].target))
    /\ es[i].kind = "vardecl" =>
         es[i].target \in Procs /\ es[i].pos = LbracePlus1(DeclNode(es[i].target))
    /\ \A n \in 1..Len(nodes) :
         nodes[n].kind = "FuncLit" =>
           es[i].pos \notin SignatureOf(n) /\ es[i].end \notin SignatureOf(n)

\* applying the fixes changes the parameters of no closure
ClosuresKept ==
  \A n \in 1..Len(nodes) :
    nodes[n].kind = "FuncLit" =>
      nodes'[n].kind = "FuncLit" /\ nodes'[n].params = nodes[n].params

\* the requests and continuation calls of the pass that lie in a closure
SitesInClosures ==
  { lc \in { todos[i] : i \in 1..Len(todos) }
             \cup { transitives[i] : i \in 1..Len(transitives) } :
      ClosuresAround(lc.call) # {} }

\* the enclosing top-level function of site lc has ctx after the pass
TopLevelHasCtx(lc) ==
  LET p == decl(lc.path)
  IN \/ HasParamNamedCtx(p)
     \/ procs[p].ctxDecl # ""
     \/ Count(EmittedEdits(round, unit), "param", p)
          + Count(EmittedEdits(round, unit), "vardecl", p) = 1

Around(m, n) == m = n \/ IsUnder(n, m)

\* the local variables of qualifying type declared, by a statement that is
\* over before node n, in a lexical scope around n: the body of a
\* procedure or closure, or a nested block
LocalsBefore(n) ==
  { m \in 1..Len(nodes) :
      /\ nodes[m].kind \in { "Var", "Assign" }
      /\ Qualifies(nodes[m].vtype)
      /\ nodes[m].kind = "Assign" => nodes[m].lhs = << "ctx" >>
      /\ Pos(m) < Pos(n)
      /\ ~Around(m, n)
      /\ IsUnder(n, nodes[m].parent) }

\* the positions the resolver is asked about: the bare requests and the
\* call sites recorded by the traversal
QueriedCalls ==
  { todos[i].call : i \in { j \in 1..Len(todos) : todos[j].assign = 0 } }
    \cup { transitives[i].call : i \in 1..Len(transitives) }
    \cup UNION { { callers[p][i].call : i \in 1..Len(callers[p]) } : p \in Procs }

(***************************************************************************)
(* C17: when a local variable of qualifying type is declared strictly      *)
(* before position P in a lexical scope around P (a function body, a       *)
(* nested block, an enclosing closure or procedure), the resolver asked    *)
(* at P finds a provider.                                                  *)
(***************************************************************************)
C17_Original ==
  \A n \in QueriedCalls :
    LocalsBefore(n) # {} => hasContextProviderInPath(PathTo(n), Pos(n)).ok

\* the name a local declaration introduces
NameOf(m) == IF nodes[m].kind = "Var" THEN nodes[m].vname ELSE nodes[m].lhs[1]

\* what the resolver may answer at node n without a forward reference: a
\* parameter of an enclosing function, a local variable whose declaration
\* is over before n, or the root declaration of the procedure
BackwardExprs(n) ==
  UNION { { ExprOf(IF ParamsOf(a)[i].name = ""
                   THEN "unnamedParam" \o IdxStr[i] ELSE ParamsOf(a)[i].name,
                   ParamsOf(a)[i].type) :
              i \in { j \in 1..Len(ParamsOf(a)) : Qualifies(ParamsOf(a)[j].type) } } :
          a \in FuncAncestors(n) }
    \cup { ExprOf(NameOf(m), nodes[m].vtype) : m \in LocalsBefore(n) }
    \cup (IF procs[decl(PathTo(n))].ctxDecl # "" THEN { "ctx" } ELSE {})

(***************************************************************************)
(* C18: the resolver makes no forward reference: what it returns at        *)
(* position P is never a local variable whose declaration is not over      *)
(* before P, and for a call inside an assignment never a variable that     *)
(* assignment declares.                                                    *)
(***************************************************************************)
C18_Original ==
  \A n \in QueriedCalls :
    LET res == hasContextProviderInPath(PathTo(n), Pos(n))
    IN res.ok => res.expr \in BackwardExprs(n)

(***************************************************************************)
(* A driver that analyses the units side by side.  A first, sequential     *)
(* run in dependency order gives the results to compare with; then the     *)
(* fact store is emptied and both passes are started, each with its own    *)
(* runner, and take their steps in any interleaving.  A pass starts only   *)
(* when the passes of the units it imports are done.                       *)
(***************************************************************************)
Parallel == parked.pc # "none"

\* the units whose procedures unit u calls
Imports(u) ==
  { v \in 1..2 :
      /\ v # u
      /\ \E n \in 1..Len(nodes) :
           /\ nodes[n].kind = "Call" /\ nodes[n].callee \in Procs
           /\ UnitOfNode(n) = u /\ procs[nodes[n].callee].unit = v }

\* where the pass over unit u is
PcOf(u) == IF unit = u THEN pc ELSE IF parked.unit = u THEN parked.pc ELSE "none"

\* a driver that starts a pass without waiting
DepsDoneAlways(u) == TRUE

DepsDone(u) == \A v \in Imports(u) : PcOf(v) = "done"

\* the pass that takes steps from now on is the one with runner rn
Resume(rn) ==
  /\ unit' = rn.unit
  /\ pc' = rn.pc
  /\ byObj' = rn.byObj
  /\ callers' = rn.callers
  /\ todos' = rn.todos
  /\ transitives' = rn.transitives
  /\ paramAdded' = rn.paramAdded
  /\ contextImported' = rn.contextImported
  /\ next' = rn.next
  /\ cur' = rn.cur
  /\ seen' = rn.seen
  /\ stack' = rn.stack
  /\ edits' = rn.edits
  /\ visits' = rn.visits

seqRun == ~Parallel /\ run

seqReturns == ~Parallel /\ runReturns

\* the sequential run is over: its facts are kept for comparison, and the
\* passes over both units are started afresh on an empty fact store
restart ==
  /\ ~Parallel
  /\ pc = "done"
  /\ settled' = facts
  /\ facts' = {}
  /\ round' = 2
  /\ Resume(FreshRunner(1))
  /\ parked' = FreshRunner(2)
  /\ UNCHANGED << astVars, reported, dropped >>

parRun == Parallel /\ DepsDone(unit) /\ run

\* run returns; the other pass is not touched
parReturns ==
  /\ Parallel
  /\ pc = "diag"
  /\ next > Len(todos) + Len(transitives)
  /\ pc' = "done"
  /\ UNCHANGED << astVars, driverVars, round, unit, facts, runVars, next, walkVars,
                  reported, dropped >>

\* the scheduler lets the other pass take the next steps
switch ==
  /\ Parallel
  /\ parked.pc # "done"
  /\ parked' = Runner
  /\ Resume(parked)
  /\ UNCHANGED << astVars, settled, round, facts, reported, dropped >>

ParShapes == { s \in ProcShapes : s.name \in { "f", "F", "main", "l" } }

InitPar ==
  /\ \E shapes \in [Procs -> ParShapes] :
       \E ss \in StmtLists("two", shapes) :
         Program("two", shapes, ss)
  /\ ModuleCache = GoModCache
  /\ InitRunner

ParNext ==
  \/ seqRun
  \/ seqReturns
  \/ restart
  \/ parRun
  \/ rewriteTODO
  \/ rewriteTransitives
  \/ propagateContextThrough
  \/ propagateContextForCall
  \/ appendEdit
  \/ reportFix
  \/ parReturns
  \/ switch

ParSpec == InitPar /\ [][ParNext]_vars

\* the diagnostics of the pass over unit u in run r, without the run's number
ResultOf(r, u) ==
  [k \in 1..Len(PassDiags(r, u)) |-> [PassDiags(r, u)[k] EXCEPT !.round = 0]]

\* both passes of the interleaved run are done
BothDone == Parallel /\ pc = "done" /\ parked.pc = "done"

\* a pass that has built its call graph
Started(u) == PcOf(u) \in { "diag", "walk", "done" }

(***************************************************************************)
(* C16: with a pass started only after the passes of the units it imports  *)
(* are done, two passes may take their steps in any interleaving: a pass   *)
(* that has read the fact store has read, of every procedure of a unit it  *)
(* imports, the value the sequential run ends with, and when both passes   *)
(* are done the diagnostics (with their edits) of each unit and the facts  *)
(* are those of the sequential run in dependency order.                    *)
(***************************************************************************)
C16_ParallelAsSequential ==
  /\ Parallel =>
       \A u \in 1..2 :
         Started(u) =>
           \A q \in Procs : procs[q].unit \in Imports(u) => (q \in facts <=> q \in settled)
  /\ BothDone =>
       /\ facts = settled
       /\ \A u \in 1..2 : ResultOf(2, u) = ResultOf(1, u)

\* both passes are done after an interleaved run of two independent units
\* in which the pass over the second unit started first and reported its
\* diagnostic before the pass over the first unit reported its own
C16_Witness ==
  /\ BothDone
  /\ Imports(2) = {}
  /\ \E i \in 1..Len(reported) : \E j \in 1..Len(reported) :
       /\ i < j
       /\ reported[i].round = 2 /\ reported[i].unit = 2
       /\ reported[j].round = 2 /\ reported[j].unit = 1
       /\ reported[j].edits # << >>

(***************************************************************************)
(* The pass with its requests and its continuation edges handled in any    *)
(* order.  A first run handles them in the order of the traversal, as      *)
(* buildDiagnostics does; the second run handles any permutation of the    *)
(* requests and any permutation of the edges.                              *)
(***************************************************************************)
Orders(s) ==
  { [i \in 1..Len(s) |-> s[f[i]]] :
      f \in { g \in [1..Len(s) -> 1..Len(s)] :
                \A i \in 1..Len(s) : \A j \in 1..Len(s) : i # j => g[i] # g[j] } }

inOrder == round = 1 /\ run

anyOrder ==
  /\ round = 2
  /\ pc = "run"
  /\ LET g == buildCallGraph(unit)
     IN /\ byObj' = g.byObj
        /\ callers' = g.callers
        /\ todos' \in Orders(g.todos)
        /\ transitives' \in Orders(g.transitives)
  /\ paramAdded' = {}
  /\ contextImported' = {}
  /\ next' = 1
  /\ pc' = "diag"
  /\ UNCHANGED << astVars, driverVars, round, unit, facts, walkVars, reported, dropped >>

\* the first run is over: the program is analysed once more as it is, on
\* an empty fact store
again ==
  /\ pc = "done"
  /\ round = 1
  /\ settled' = facts
  /\ facts' = {}
  /\ round' = 2
  /\ unit' = FirstUnit
  /\ pc' = "run"
  /\ UNCHANGED << astVars, parked, runVars, next, walkVars, reported, dropped >>

OrderFlags ==
  { GoModCache } \cup { << "src", "main", b >> : b \in { "x.go", "x_test.go" } }

InitOrder ==
  /\ \E layout \in FilterLayouts :
       \E shapes \in { sh \in [Procs -> FilterShapes] : DistinctNames(layout, sh) } :
         \E ss \in StmtLists(layout, shapes) :
           Program(layout, shapes, ss)
  /\ ModuleCache \in OrderFlags
  /\ InitRunner

OrderNext ==
  \/ inOrder
  \/ anyOrder
  \/ again
  \/ rewriteTODO
  \/ rewriteTransitives
  \/ propagateContextThrough
  \/ propagateContextForCall
  \/ appendEdit
  \/ reportFix
  \/ runReturns

OrderSpec == InitOrder /\ [][OrderNext]_vars

\* how often each edit occurs in the sequence es
EditBag(es) ==
  [e \in { es[i] : i \in 1..Len(es) } |->
     Cardinality({ i \in 1..Len(es) : es[i] = e })]

\* all the edits the pass over unit u handed to Report in run r
ProducedEdits(r, u) == AllEdits(PassDiags(r, u))

\* those of them that got past the report filter
SurvivingEdits(r, u) ==
  AllEdits(SelectSeq(reported, LAMBDA d : d.round = r /\ d.unit = u))

BothRunsOver == round = 2 /\ pc = "done"

\* the second run handled the requests or the edges of unit u in another
\* order than the traversal's
Reordered(u) ==
  \E i \in 1..Len(PassDiags(1, u)) :
    /\ i <= Len(PassDiags(2, u))
    /\ PassDiags(1, u)[i].edits # << >>
    /\ PassDiags(2, u)[i].pos # PassDiags(1, u)[i].pos

ChainLayouts == { "two", "twoCache" }

ChainForms == Forms \cup { "callExt" }

ChainShapes == { s \in ProcShapes : s.name \in { "f", "F", "main", "h", "k", "l" } }

\* the statements of a program of the chain, in source order
ChainStmtLists(layout, shapes) ==
  { ss \in UNION { [1..k -> StmtShapesOf(layout, shapes, Ctxs, ChainForms)] :
                     k \in 1..MaxStmts } :
      /\ \A i \in 1..Len(ss) : \A j \in 1..Len(ss) : i < j => ss[i].fn <= ss[j].fn
      /\ \A i \in 1..Len(ss) :
           DeclaresCtx(ss[i]) =>
             /\ \A k \in 1..Len(shapes[ss[i].fn].params) :
                  shapes[ss[i].fn].params[k].name # "ctx"
             /\ \A j \in 1..Len(ss) :
                  j # i /\ ss[j].fn = ss[i].fn => ~DeclaresCtx(ss[j]) }

InitChain ==
  /\ \E layout \in ChainLayouts :
       \E shapes \in { sh \in [Procs -> ChainShapes] : DistinctNames(layout, sh) } :
         \E ss \in ChainStmtLists(layout, shapes) :
           Program(layout, shapes, ss)
  /\ ModuleCache = GoModCache
  /\ InitPass
  /\ facts = { CalleeExt }

ChainNext ==
  \/ run
  \/ rewriteTODO
  \/ rewriteTransitives
  \/ propagateContextThrough
  \/ propagateContextForCall
  \/ appendEdit
  \/ reportFix
  \/ runReturns

ChainSpec == InitChain /\ [][ChainNext]_vars

\* the calls of procedures in procedure p, closures included
CallsIn(p) ==
  { n \in 1..Len(nodes) :
      /\ nodes[n].kind = "Call"
      /\ nodes[n].callee \in Procs \cup { CalleeExt }
      /\ decl(PathTo(n)) = p }

\* the requests in procedure p that make it need a context: an assignment
\* form in a procedure with no parameter to take it from, or a bare request
\* with no provider in sight
NeedyRequestsIn(p) ==
  { n \in 1..Len(nodes) :
      /\ nodes[n].kind = "Call" /\ nodes[n].callee = CalleeTODO
      /\ decl(PathTo(n)) = p
      /\ IF AssignOf(n) # 0
         THEN ~QualifyingParam(p)
         ELSE AnyProvidersAt(n) = {} }

\* one round of the propagation: the procedures, other than entry points,
\* with a request or with a call of a procedure of ps (or of the external
\* procedure that has a fact) and no provider in sight there
Propagate(ps) ==
  { p \in Procs :
      /\ ~EntryPoint(p)
      /\ \/ NeedyRequestsIn(p) # {}
         \/ \E n \in CallsIn(p) :
              nodes[n].callee \in ps \cup { CalleeExt } /\ AnyProvidersAt(n) = {} }

RECURSIVE PropagateTimes(_, _)
PropagateTimes(ps, k) == IF k = 0 THEN ps ELSE PropagateTimes(Propagate(ps), k - 1)

\* the procedures that a context has to be passed to
MustTakeContext == PropagateTimes({}, NumProcs + 1)

\* the call sites on the call paths from a request up to the first
\* procedure with a provider or entry point
SitesOnPaths ==
  { n \in 1..Len(nodes) :
      /\ nodes[n].kind = "Call"
      /\ nodes[n].callee \in MustTakeContext \cup { CalleeExt } }

\* call site n got its leading argument in a reported fix
Received(n) ==
  \E k \in 1..Len(reported) : Count(reported[k].edits, "prepend", n) = 1

AllPassesOver == pc = "done"

(***************************************************************************)
(* C22: in a chain of units A, B, C analysed in dependency order, a        *)
(* procedure of B that a continuation edge forces a parameter into gets a  *)
(* fact when it is exported, and once the passes are over every call site  *)
(* on every call path from a request up to the first procedure with a      *)
(* provider or entry point has received a leading context argument.        *)
(***************************************************************************)
C22_Original ==
  /\ pc # "walk" =>
       \A p \in Procs :
         /\ ExportedName(p)
         /\ \E r \in 1..2 : Count(EmittedEdits(r, procs[p].unit), "param", p) = 1
         => p \in facts
  /\ AllPassesOver => \A n \in SitesOnPaths : Received(n)
============================================================================
